---- MODULE Spec2Model ----
(***************************************************************************)
(* The request/response pipeline of the nutanix-go-sdk client (client.go)  *)
(* and the resource clients built on it (vm.go, project.go, subnet.go and  *)
(* the category client): request construction, response checking, typed    *)
(* decoding, list pagination and the by-name lookups.                      *)
(*                                                                         *)
(* One logical call is a sequential process.  It blocks at every HTTP      *)
(* round trip; the backend's answer to the request in flight is the input  *)
(* of the step that resumes it.                                            *)
(***************************************************************************)
EXTENDS Integers, Sequences, FiniteSets, TLC

\* ------------------------------------------------------------ constants

\* client.go:26  itemsPerPage int64 = 500
itemsPerPage == 500

\* The backend's result sets hold up to MaxPages full pages and a rest.
MaxPages == 2

\* NewClient is handed up to MaxOptions options.
MaxOptions == 2

\* The page length the backend applies to a list request that names none.
ServerDefaultLength == 20

\* ------------------------------------------------------------ values

\* A Go pointer to an int64 (DSMetadata.Length, DSMetadata.Offset): nil or set.
Nil == [set |-> FALSE, val |-> 0]

Ptr(n) == [set |-> TRUE, val |-> n]

\* The resource clients whose source is at hand.
Clients == {"vm", "project", "subnet", "category"}

Names == {"web", "db"}

\* error values; kind "none" is Go's nil error
Err(kind, code, text) == [kind |-> kind, code |-> code, text |-> text]

NoErr == Err("none", 0, <<>>)

\* fmt.Sprintf("vm_name==%s", name) and its like: the format's constant part
\* followed by the argument.
Sprintf(format, arg) == <<format, arg>>

Min(a, b) == IF a < b THEN a ELSE b

\* ------------------------------------------------------------ responses

\* A response body as the pipeline sees it.  kind: "empty" (zero bytes),
\* "invalid" (not JSON), "unreadable" (reading it fails part-way) or "object"
\* (a JSON object).  For an object: keys are those of the top-level keys the
\* pipeline looks at that are present; status is the value under `status`
\* (shape "string", "object" with its own state, or "other": null, number,
\* boolean, array); state the string under a top-level `state`; typed tells
\* whether the value under `entities` fits the typed output; entities, total
\* and offset are the entity list and the metadata block's total_matches and
\* offset.
Body(kind, keys, status, state, typed, entities, total, offset) ==
    [kind |-> kind, keys |-> keys, status |-> status, state |-> state,
     typed |-> typed, entities |-> entities, total |-> total, offset |-> offset]

NoStatus == [shape |-> "absent", state |-> ""]

PlainBody(kind) == Body(kind, {}, NoStatus, "", TRUE, <<>>, 0, 0)

\* What httpClient.Do hands back: a transport error, or a response with a
\* status code and a body.
Response(code, body) == [transport |-> FALSE, code |-> code, body |-> body]

TransportFailure == [transport |-> TRUE, code |-> 0, body |-> PlainBody("empty")]

\* A typed list output (schema.VMListIntent and its like): the fields the
\* pipeline reads.
ListIntent(entities, total, offset) ==
    [Entities |-> entities, TotalMatches |-> total, Offset |-> offset]

EmptyList == ListIntent(<<>>, 0, 0)

\* The `output interface{}` a resource client hands to requestHelper: nil
\* (Delete) or a pointer to a typed value.
NilOutput == [nil |-> TRUE, target |-> EmptyList]

TypedOutput(t) == [nil |-> FALSE, target |-> t]

\* The `v interface{}` of Client.Do.
NilV == [nil |-> TRUE, writer |-> FALSE, elem |-> NilOutput]

\* client.go:519  c.Do(req, &output): a non-nil *interface{} whatever output holds
AddrOf(output) == [nil |-> FALSE, writer |-> FALSE, elem |-> output]

\* ------------------------------------------------------------ checkResponse

\* client.go:162
HardStatus_NoNotFound(code) == code >= 500 \/ code = 401

HardStatus(code) == code >= 500 \/ code = 401 \/ code = 404

\* A `state` whose JSON value is a number, where the other values of a
\* state are JSON strings.
NumberState == "#5"

\* client.go:324-330: fillStruct marshals the map and unmarshals it into the
\* error shape, whose State is a string (client.go:202): any JSON string
\* fits it, a number does not.
fillStruct(state) ==
    IF state = NumberState
    THEN [State |-> "", err |-> Err("fill", 0, <<>>)]
    ELSE [State |-> state, err |-> NoErr]

\* client.go:198-207 with the state compared whatever its case
StateVerdict_AnyCase(state) ==
    LET errRes == fillStruct(state) IN
    IF errRes.err # NoErr
    THEN [err |-> errRes.err, panic |-> FALSE]
    ELSE IF errRes.State \notin {"ERROR", "error"}
    THEN [err |-> NoErr, panic |-> FALSE]
    ELSE [err |-> Err("api", 0, <<errRes.State>>), panic |-> FALSE]

\* client.go:198-207: the error of fillStruct is returned as it is; after
\* that, state "ERROR" is the structured API error.
StateVerdict(state) ==
    LET errRes == fillStruct(state) IN
    IF errRes.err # NoErr
    THEN [err |-> errRes.err, panic |-> FALSE]
    ELSE IF errRes.State # "ERROR"
    THEN [err |-> NoErr, panic |-> FALSE]
    ELSE [err |-> Err("api", 0, <<errRes.State>>), panic |-> FALSE]

\* client.go:184-207: `status` first, then `state`, then `entities`.  The
\* type assertion status.(map[string]interface{}) panics on a status that is
\* neither a string nor an object.
Classify(b) ==
    IF "status" \in b.keys
    THEN IF b.status.shape = "string"
         THEN [err |-> NoErr, panic |-> FALSE]
         ELSE IF b.status.shape = "object"
         THEN StateVerdict(b.status.state)
         ELSE [err |-> NoErr, panic |-> TRUE]
    ELSE IF "state" \in b.keys
    THEN StateVerdict(b.state)
    ELSE IF "entities" \in b.keys
    THEN [err |-> NoErr, panic |-> FALSE]
    ELSE StateVerdict("")

\* client.go:147-208.  The result names the error returned (or a panic) and
\* whether the body was read into the buffer (consumed) on the way.
checkResponse(method, r) ==
    IF r.code >= 200 /\ r.code <= 299 /\ method = "DELETE"
    THEN [err |-> NoErr, panic |-> FALSE, read |-> FALSE]
    ELSE IF r.body.kind = "unreadable"
    THEN [err |-> Err("read", 0, <<>>), panic |-> FALSE, read |-> TRUE]
    ELSE IF HardStatus(r.code)
    THEN [err |-> Err("status", r.code, <<r.body.kind>>), panic |-> FALSE, read |-> TRUE]
    ELSE IF r.body.kind = "empty"
    THEN [err |-> NoErr, panic |-> FALSE, read |-> TRUE]
    ELSE IF r.body.kind = "invalid"
    THEN [err |-> Err("unmarshal", 0, <<>>), panic |-> FALSE, read |-> TRUE]
    ELSE [err |-> Classify(r.body).err, panic |-> Classify(r.body).panic, read |-> TRUE]

\* ------------------------------------------------------------ Client.Do

\* json.Decoder.Decode of a body into a typed list value: a key the body
\* lacks leaves the field as it was.
Unmarshal(target, b) ==
    [Entities |-> IF "entities" \in b.keys /\ b.typed THEN b.entities ELSE target.Entities,
     TotalMatches |-> b.total,
     Offset |-> b.offset]

\* client.go:137: whether json.NewDecoder(resp.Body).Decode(v) succeeds.  An
\* empty body is io.EOF; a nil interface behind v takes any JSON value.
DecodeOK(elem, b) ==
    /\ b.kind = "object"
    /\ (elem.nil \/ b.typed \/ "entities" \notin b.keys)

\* client.go:126  if v != nil
WantsDecode(v) == ~v.nil

\* client.go:110-145.  decoded: whether a JSON decode of the body was
\* attempted; out: the output value afterwards.
Do(method, r, v) ==
    IF r.transport
    THEN [err |-> Err("transport", 0, <<>>), panic |-> FALSE, decoded |-> FALSE,
          out |-> v.elem.target]
    ELSE LET chk == checkResponse(method, r) IN
         IF chk.panic \/ chk.err # NoErr
         THEN [err |-> chk.err, panic |-> chk.panic, decoded |-> FALSE,
               out |-> v.elem.target]
         ELSE IF ~WantsDecode(v)
         THEN [err |-> NoErr, panic |-> FALSE, decoded |-> FALSE, out |-> v.elem.target]
         ELSE IF v.writer
         THEN [err |-> IF r.body.kind = "unreadable" THEN Err("read", 0, <<>>) ELSE NoErr,
               panic |-> FALSE, decoded |-> FALSE, out |-> v.elem.target]
         ELSE IF DecodeOK(v.elem, r.body)
         THEN [err |-> NoErr, panic |-> FALSE, decoded |-> TRUE,
               out |-> IF v.elem.nil THEN v.elem.target
                       ELSE Unmarshal(v.elem.target, r.body)]
         ELSE [err |-> Err("decode", 0, <<r.body.kind>>), panic |-> FALSE,
               decoded |-> TRUE,
               out |-> IF r.body.kind = "object" /\ ~v.elem.nil
                       THEN Unmarshal(v.elem.target, r.body)
                       ELSE v.elem.target]

\* client.go:519-524: requestHelper once the request is built and sent.
requestHelper(method, r, output) == Do(method, r, AddrOf(output))

\* ------------------------------------------------------------ NewClient

\* client.go:61-75: the options the package offers.  A nil pointer field of
\* the client is "".
WithCredentials(cred) == [option |-> "WithCredentials", arg |-> cred]

WithEndpoint(endpoint) == [option |-> "WithEndpoint", arg |-> endpoint]

ClientOptions == {WithCredentials("admin"), WithEndpoint("prism")}

\* client.go:63-65 and client.go:70-73: an option applied to the client
ApplyOption(c, o) ==
    IF o.option = "WithCredentials"
    THEN [c EXCEPT !.credentials = o.arg]
    ELSE [c EXCEPT !.baseURL = Sprintf("%s:9440/", o.arg)]

RECURSIVE ApplyOptions(_, _)
\* client.go:83-85
ApplyOptions(c, os) ==
    IF os = <<>> THEN c ELSE ApplyOptions(ApplyOption(c, Head(os)), Tail(os))

\* client.go:78-107.  The transport is set after the options ran, with
\* TLSClientConfig{InsecureSkipVerify: true}.
NewClient(os) ==
    [ApplyOptions([baseURL |-> <<>>, credentials |-> "", userAgent |-> "",
                   insecureSkipVerify |-> FALSE], os)
        EXCEPT !.userAgent = "nutanix/cmd.Version", !.insecureSkipVerify = TRUE]

OptionSeqs == UNION {[1..n -> ClientOptions] : n \in 0..MaxOptions}

\* client.go:211 and client.go:221: setHeaders reads c.credentials and
\* NewV3PCRequest resolves against c.baseURL; either being nil is a nil
\* pointer dereference.
Usable(c) == c.credentials # "" /\ c.baseURL # <<>>

\* ------------------------------------------------------------ requests

\* client.go:20-23
absolutePath == "api/nutanix/v3"

\* vm.go:19, project.go:13, subnet.go:13 and the category client's base path
BasePath(client) ==
    CASE client = "vm" -> "/vms"
      [] client = "project" -> "/projects"
      [] client = "subnet" -> "/subnets"
      [] client = "category" -> "/categories"

ListPath(client) == <<BasePath(client), "/list">>

SinglePath(client, id) == <<BasePath(client), "/", id>>

\* schema.DSMetadata, the query options of a list call
DSMetadata(filter, length, offset) ==
    [Filter |-> filter, Length |-> length, Offset |-> offset]

NoFilter == <<>>

\* The `body interface{}` of a request: Go's nil, a *schema.File, or any
\* other value (here the query options).
NilBody == [kind |-> "nil", value |-> DSMetadata(NoFilter, Nil, Nil)]

ValueBody(o) == [kind |-> "value", value |-> o]

\* What a request carries: hasBody tells whether a body reader was handed to
\* http.NewRequest; json is "null" for the JSON text null, "object" for a
\* marshalled value, "" for a raw upload.
Payload(hasBody, media, json, value) ==
    [hasBody |-> hasBody, media |-> media, json |-> json, value |-> value]

\* client.go:246-257: the type switch on body.  json.Marshal(nil) is the text
\* null, and bytes.NewReader of it is the request's body.
Content(body) ==
    IF body.kind = "file"
    THEN Payload(TRUE, "application/octet-stream", "", body.value)
    ELSE Payload(TRUE, "application/json",
                 IF body.kind = "nil" THEN "null" ELSE "object", body.value)

\* client.go:242-277
newV3Request(method, url, body) ==
    [method |-> method, url |-> url, auth |-> "basic", payload |-> Content(body)]

\* client.go:216-223
NewV3PCRequest(method, path, body) ==
    newV3Request(method, <<"baseURL", absolutePath>> \o path, body)

\* ------------------------------------------------------------ pagination

\* client.go:508-511 with the test made strict
hasNext_Strict(ri) ==
    [ri |-> ri - itemsPerPage, ok |-> ri - itemsPerPage > 0 - itemsPerPage]

\* client.go:508-511: the counter after the decrement, and the verdict
hasNext(ri) ==
    [ri |-> ri - itemsPerPage, ok |-> ri - itemsPerPage >= 0 - itemsPerPage]

\* vm.go:84, project.go:50, subnet.go:50 and the category client: the list
\* type each client hands to listHelper
ListType(client) ==
    CASE client = "vm" -> "VMListIntent"
      [] client = "project" -> "ProjectListIntent"
      [] client = "subnet" -> "SubnetListIntent"
      [] client = "category" -> "CategoryKeyList"

\* client.go:337-481: the list types whose case pages
Paginated(t) ==
    t \in {"VMRecoveryPointListIntent", "VMListIntent", "ImageListIntent",
           "CategoryKeyList", "ProjectListIntent", "ClusterListIntent",
           "SubnetListIntent", "AvailabilityZoneListIntent",
           "VirtualNetworkListIntent"}

\* client.go:359 and its like  if totalEntities >= itemsPerPage
MorePages_Inclusive(totalEntities) == totalEntities >= itemsPerPage

\* client.go:359 and its like  if totalEntities > itemsPerPage
MorePages(totalEntities) == totalEntities > itemsPerPage

\* ------------------------------------------------------------ by-name lookup

\* vm.go:75, project.go:41, subnet.go:41 and the category client
NameFilter(client, name) ==
    IF client = "vm" THEN Sprintf("vm_name==%s", name) ELSE Sprintf("name==%s", name)

\* vm.go:77, project.go:43, subnet.go:43 and the category client
NotFound(client, name) ==
    Err("notfound", 0,
        Sprintf(CASE client = "vm" -> "VM not found: %s"
                  [] client = "project" -> "project not found: %s"
                  [] client = "subnet" -> "subnet not found: %s"
                  [] client = "category" -> "category not found: %s", name))

\* What a call hands back: the list (List), the resource (GetByName: nil or
\* the entity) and the error.
Result(list, item, err) == [list |-> list, item |-> item, err |-> err]

\* GetByName with the emptiness test dropped
GetByName_NoEmptyTest(client, name, list, err) ==
    Result(list, IF Len(list.Entities) = 0 THEN Nil ELSE Ptr(list.Entities[1]), err)

\* vm.go:74-80, project.go:40-46, subnet.go:40-46: the list's length is
\* looked at before the error.  The category client returns the error first.
GetByName(client, name, list, err) ==
    IF client = "category" /\ err # NoErr
    THEN Result(list, Nil, err)
    ELSE IF Len(list.Entities) = 0
    THEN Result(list, Nil, NotFound(client, name))
    ELSE Result(list, Ptr(list.Entities[1]), err)

\* ------------------------------------------------------------ the backend

\* Sizes of the backend's result set: around every page boundary.
TotalChoices ==
    {k * itemsPerPage + d : k \in 0..MaxPages, d \in {0, 1, itemsPerPage - 1}}

\* The offset and length a list request asks for (the backend's defaults
\* when the query options leave them out).
ReqOffset(req) ==
    IF req.payload.json = "object" /\ req.payload.value.Offset.set
    THEN req.payload.value.Offset.val ELSE 0

ReqLength(req) ==
    IF req.payload.json = "object" /\ req.payload.value.Length.set
    THEN req.payload.value.Length.val ELSE ServerDefaultLength

\* A backend that serves each offset faithfully: of T matching entities,
\* numbered 1..T, those from the offset on, up to one page.
Page(T, off, len) ==
    [i \in 1..(IF T - off < 0 THEN 0 ELSE Min(len, T - off)) |-> off + i]

StatusObject(state) == [shape |-> "object", state |-> state]

ListBody(req, T, keys, status, state, typed) ==
    Body("object", keys, status, state, typed,
         Page(T, ReqOffset(req), ReqLength(req)), T, ReqOffset(req))

\* The faithful answer to a list request.
FaithfulBody(req, T) == ListBody(req, T, {"entities"}, NoStatus, "", TRUE)

ListBodies(req, T) ==
    {FaithfulBody(req, T),
     ListBody(req, T, {"entities", "status"}, StatusObject("ERROR"), "", TRUE),
     ListBody(req, T, {"entities", "state"}, NoStatus, "ERROR", TRUE),
     ListBody(req, T, {"entities", "status"}, [shape |-> "other", state |-> ""], "", TRUE),
     ListBody(req, T, {"entities"}, NoStatus, "", FALSE),
     Body("object", {"status"}, StatusObject("ERROR"), "", TRUE, <<>>, 0, 0),
     PlainBody("empty"), PlainBody("invalid"), PlainBody("unreadable")}

ListCodes == {200, 400, 404, 503}

\* What may come back for a list request.
ListResponses(req, T) ==
    {TransportFailure} \cup {Response(c, b) : c \in ListCodes, b \in ListBodies(req, T)}

StateVals == {"ERROR", "error", "COMPLETE", NumberState}

StatusVals ==
    {[shape |-> "string", state |-> ""], [shape |-> "other", state |-> ""]}
        \cup {StatusObject(st) : st \in StateVals \cup {""}}

\* JSON objects by the keys the pipeline looks at; a field whose key is
\* absent holds its zero value.
ObjectBodies ==
    {Body("object", keys, status, state, typed, <<>>, 0, 0) :
        keys \in SUBSET {"entities", "status", "state"},
        status \in StatusVals \cup {NoStatus},
        state \in StateVals \cup {""},
        typed \in BOOLEAN}

WellFormed(b) ==
    /\ ("status" \in b.keys) = (b.status # NoStatus)
    /\ ("state" \in b.keys) = (b.state # "")
    /\ ("entities" \notin b.keys) => b.typed

Bodies ==
    {PlainBody("empty"), PlainBody("invalid"), PlainBody("unreadable")}
        \cup {b \in ObjectBodies : WellFormed(b)}

Codes == {200, 204, 400, 401, 404, 500, 503}

\* What may come back for a request on a single resource.
Responses == {TransportFailure} \cup {Response(c, b) : c \in Codes, b \in Bodies}

\* ------------------------------------------------------------ concurrent calls

\* The goroutines calling into one client at the same time.
Procs == {"g1", "g2"}

\* client.go:355-358 with the loop's variables held once for all calls
Slot_Shared(p) == "g1"

\* client.go:355-358: newList, offset and remaining are declared inside
\* listHelper, so every call has its own.
Slot(p) == p

\* What a call holds of its own: the caller's options and output value, the
\* backend it talks to (T entities, its failAt-th request failing in
\* transport, 0 for none), the requests it has issued, and what it returned.
Frame(pcv, kind, o, T, failAt, requests) ==
    [pc |-> pcv, kind |-> kind, opts |-> o, opts0 |-> o, T |-> T, failAt |-> failAt,
     sent |-> requests, response |-> EmptyList, ret |-> Result(EmptyList, Nil, NoErr)]

IdleFrame == Frame("idle", "", DSMetadata(NoFilter, Nil, Nil), 0, 0, <<>>)

\* client.go:332-333: the call as it stands once its first request is out
StartFrame(kind, o, T, failAt) ==
    Frame("first", kind, o, T, failAt,
          <<NewV3PCRequest("POST", ListPath(kind), ValueBody(o))>>)

\* client.go:355-358
Locals(newListv, remainingv, offsetv) ==
    [newList |-> newListv, remaining |-> remainingv, offset |-> offsetv]

NoLocals == Locals(EmptyList, 0, 0)

\* The backend's answer to the request a call has just issued.
Answer(f) ==
    IF Len(f.sent) = f.failAt
    THEN TransportFailure
    ELSE Response(200, FaithfulBody(f.sent[Len(f.sent)], f.T))

\* client.go:360-362 and 367: the loop's test with the next request, as
\* Iterate has it, on a call's frame f and the loop variables l.
Loop(f, l, v, rem, off, aliased) ==
    LET h == hasNext(rem)
        o == [f.opts EXCEPT !.Offset = Ptr(off)]
        l2 == [l EXCEPT !.remaining = h.ri, !.offset = off]
    IN IF h.ok
       THEN [f |-> [f EXCEPT !.pc = "page", !.opts = o, !.response = v,
                             !.sent = Append(@, NewV3PCRequest("POST", ListPath(f.kind),
                                                               ValueBody(o)))],
             l |-> l2]
       ELSE [f |-> [f EXCEPT !.pc = "done", !.opts = IF aliased THEN o ELSE @,
                             !.response = v, !.ret = Result(v, Nil, NoErr)],
             l |-> l2]

\* client.go:333-359: the first response
FirstStep(f, l) ==
    LET res == requestHelper("POST", Answer(f), TypedOutput(f.response)) IN
    IF res.err # NoErr
    THEN [f |-> [f EXCEPT !.pc = "done", !.response = res.out,
                          !.ret = Result(res.out, Nil, res.err)],
          l |-> l]
    ELSE IF Paginated(ListType(f.kind)) /\ MorePages(res.out.TotalMatches)
    THEN Loop(f, Locals(EmptyList, 0, 0), res.out, res.out.TotalMatches,
              res.out.Offset, FALSE)
    ELSE [f |-> [f EXCEPT !.pc = "done", !.response = res.out,
                          !.ret = Result(res.out, Nil, NoErr)],
          l |-> Locals(EmptyList, res.out.TotalMatches, res.out.Offset)]

\* client.go:362-368: a further page's response
PageStep(f, l) ==
    LET res == requestHelper("POST", Answer(f), TypedOutput(l.newList))
        v == [f.response EXCEPT !.Entities = f.response.Entities \o res.out.Entities]
        l2 == [l EXCEPT !.newList = res.out]
    IN IF res.err # NoErr
       THEN [f |-> [f EXCEPT !.pc = "done", !.ret = Result(f.response, Nil, res.err)],
             l |-> l2]
       ELSE Loop(f, l2, v, l.remaining, l.offset + itemsPerPage, TRUE)

\* A call running alone, from where it stands to its return.
RECURSIVE RunAlone(_, _)
RunAlone(f, l) ==
    IF f.pc = "first" THEN RunAlone(FirstStep(f, l).f, FirstStep(f, l).l)
    ELSE IF f.pc = "page" THEN RunAlone(PageStep(f, l).f, PageStep(f, l).l)
    ELSE f

\* Backends of the concurrent calls: less than a page, just over a page, and
\* whole pages.
ConcTotals == {1, itemsPerPage + 1, MaxPages * itemsPerPage}

FailPoints == {0, 2}

\* ------------------------------------------------------------ state

VARIABLES
    client,     \* the Client NewClient built, shared by every call
    proc,       \* concurrent calls: each goroutine's frame
    locals,     \* concurrent calls: the loop variables of listHelper
    pc,         \* where the call stands: idle, first, page, single, done, panicked
    call,       \* the call made: operation, client, name
    opts,       \* the caller's query options (*schema.DSMetadata), as they are now
    opts0,      \* the query options as the caller passed them
    total,      \* how many entities match on the backend
    sent,       \* the requests issued so far, in order
    resp,       \* the response last received
    response,   \* listHelper's i: the list value being filled
    newList,    \* listHelper's newList
    remaining,  \* listHelper's remaining
    offset,     \* listHelper's offset
    last,       \* what the last Client.Do returned
    ret         \* what the call returned

vars == <<client, proc, locals, pc, call, opts, opts0, total, sent, resp, response,
          newList, remaining, offset, last, ret>>

NoCall == [op |-> "", client |-> "", name |-> ""]

NoDo == [err |-> NoErr, panic |-> FALSE, decoded |-> FALSE, out |-> EmptyList]

Init ==
    /\ client \in {NewClient(os) : os \in OptionSeqs}
    /\ proc = [p \in Procs |-> IdleFrame]
    /\ locals = [p \in Procs |-> NoLocals]
    /\ pc = "idle"
    /\ call = NoCall
    /\ opts = DSMetadata(NoFilter, Nil, Nil)
    /\ opts0 = DSMetadata(NoFilter, Nil, Nil)
    /\ total = 0
    /\ sent = <<>>
    /\ resp = TransportFailure
    /\ response = EmptyList
    /\ newList = EmptyList
    /\ remaining = 0
    /\ offset = 0
    /\ last = NoDo
    /\ ret = Result(EmptyList, Nil, NoErr)

\* ------------------------------------------------------------ list calls

\* client.go:332-333 behind vm.go:83-85 and its like: List allocates the
\* response and listHelper sends the first request with the caller's options.
StartList(op, kind, name, o, T) ==
    /\ pc = "idle"
    /\ Usable(client)
    /\ UNCHANGED <<client, proc, locals>>
    /\ pc' = "first"
    /\ call' = [op |-> op, client |-> kind, name |-> name]
    /\ opts' = o
    /\ opts0' = o
    /\ total' = T
    /\ sent' = <<NewV3PCRequest("POST", ListPath(kind), ValueBody(o))>>
    /\ response' = EmptyList
    /\ newList' = EmptyList
    /\ UNCHANGED <<resp, remaining, offset, last, ret>>

\* vm.go:83-87: List with the caller's own options
List ==
    \E kind \in Clients, T \in TotalChoices,
       off \in {Nil, Ptr(0), Ptr(itemsPerPage)} :
        StartList("List", kind, "", DSMetadata(NoFilter, Ptr(itemsPerPage), off), T)

\* vm.go:90-92
All ==
    \E kind \in Clients, T \in TotalChoices :
        StartList("All", kind, "", DSMetadata(NoFilter, Ptr(itemsPerPage), Ptr(0)), T)

\* vm.go:74-75: GetByName lists with the name filter alone
GetByNameCall ==
    \E kind \in Clients, name \in Names, T \in TotalChoices :
        StartList("GetByName", kind, name,
                  DSMetadata(NameFilter(kind, name), Nil, Nil), T)

\* vm.go:86 and vm.go:76-79: List returns the response with the error, and
\* GetByName goes on from there.
Return(list, err) ==
    /\ pc' = "done"
    /\ ret' = IF call.op = "GetByName"
              THEN GetByName(call.client, call.name, list, err)
              ELSE Result(list, Nil, err)

\* client.go:360-362: the loop's test, and the next page's request when it
\* holds.  opts.Offset = &offset makes the caller's options follow offset
\* from the first iteration on (aliased).
Iterate(v, rem, off, aliased) ==
    LET h == hasNext(rem)
        o == [opts EXCEPT !.Offset = Ptr(off)]
    IN /\ remaining' = h.ri
       /\ offset' = off
       /\ IF h.ok
          THEN /\ opts' = o
               /\ sent' = Append(sent, NewV3PCRequest("POST", ListPath(call.client),
                                                       ValueBody(o)))
               /\ pc' = "page"
               /\ UNCHANGED ret
          ELSE /\ opts' = IF aliased THEN o ELSE opts
               /\ UNCHANGED sent
               /\ Return(v, NoErr)

\* client.go:333-359: the first response
FirstPage ==
    /\ pc = "first"
    /\ UNCHANGED <<client, proc, locals>>
    /\ \E r \in ListResponses(sent[Len(sent)], total) :
        LET res == requestHelper("POST", r, TypedOutput(response)) IN
        /\ resp' = r
        /\ last' = res
        /\ response' = res.out
        /\ UNCHANGED <<call, opts0, total, newList>>
        /\ IF res.panic
           THEN /\ pc' = "panicked"
                /\ UNCHANGED <<opts, sent, remaining, offset, ret>>
           ELSE IF res.err # NoErr
           THEN /\ Return(res.out, res.err)
                /\ UNCHANGED <<opts, sent, remaining, offset>>
           ELSE IF Paginated(ListType(call.client))
           THEN IF MorePages(res.out.TotalMatches)
                THEN Iterate(res.out, res.out.TotalMatches, res.out.Offset, FALSE)
                ELSE /\ Return(res.out, NoErr)
                     /\ remaining' = res.out.TotalMatches
                     /\ offset' = res.out.Offset
                     /\ UNCHANGED <<opts, sent>>
           ELSE /\ Return(res.out,
                          IF ListType(call.client) = "TaskListIntent"
                          THEN NoErr ELSE Err("unsupported", 0, <<>>))
                /\ UNCHANGED <<opts, sent, remaining, offset>>

\* client.go:362-368: a further page's response
NextPage ==
    /\ pc = "page"
    /\ UNCHANGED <<client, proc, locals>>
    /\ \E r \in ListResponses(sent[Len(sent)], total) :
        LET res == requestHelper("POST", r, TypedOutput(newList))
            v == [response EXCEPT !.Entities = response.Entities \o res.out.Entities]
        IN
        /\ resp' = r
        /\ last' = res
        /\ newList' = res.out
        /\ UNCHANGED <<call, opts0, total>>
        /\ IF res.panic
           THEN /\ pc' = "panicked"
                /\ UNCHANGED <<opts, sent, remaining, offset, ret, response>>
           ELSE IF res.err # NoErr
           THEN /\ Return(response, res.err)
                /\ UNCHANGED <<opts, sent, remaining, offset, response>>
           ELSE /\ response' = v
                /\ Iterate(v, remaining, offset + itemsPerPage, TRUE)

\* ------------------------------------------------------------ single-resource calls

UUIDs == {"abc-123"}

StartSingle(op, method, kind, uuid) ==
    /\ pc = "idle"
    /\ Usable(client)
    /\ UNCHANGED <<client, proc, locals>>
    /\ pc' = "single"
    /\ call' = [op |-> op, client |-> kind, name |-> uuid]
    /\ sent' = <<NewV3PCRequest(method, SinglePath(kind, uuid), NilBody)>>
    /\ UNCHANGED <<opts, opts0, total, resp, response, newList, remaining,
                   offset, last, ret>>

\* vm.go:67-69: requestHelper(ctx, path, GET, nil, response)
GetByUUID ==
    \E kind \in Clients, uuid \in UUIDs : StartSingle("GetByUUID", "GET", kind, uuid)

\* vm.go:110-111: requestHelper(ctx, path, DELETE, nil, nil)
Delete ==
    \E kind \in Clients, uuid \in UUIDs : StartSingle("Delete", "DELETE", kind, uuid)

\* vm.go:69-70 and vm.go:111: the response to a single-resource request
SingleResponse ==
    /\ pc = "single"
    /\ UNCHANGED <<client, proc, locals>>
    /\ \E r \in Responses :
        LET res == requestHelper(sent[1].method, r,
                                 IF call.op = "Delete" THEN NilOutput
                                 ELSE TypedOutput(EmptyList))
        IN
        /\ resp' = r
        /\ last' = res
        /\ pc' = IF res.panic THEN "panicked" ELSE "done"
        /\ ret' = IF res.panic THEN ret
                  ELSE Result(EmptyList,
                              IF call.op = "Delete" THEN Nil ELSE Ptr(0), res.err)
        /\ UNCHANGED <<call, opts, opts0, total, sent, response, newList,
                       remaining, offset>>

\* ------------------------------------------------------------ cluster-scoped calls

\* client.go:24
defaultV2BaseURL == "PrismGateway/services/rest/v2.0"

\* client.go:235-236 and client.go:289-290: defaulthttps inside
\* defaultBaseURL, with the cluster's external IP
PEEndpoint(ip) == <<"https://%s:9440/", ip>>

\* vm.go:23-24: the action paths the cluster-scoped calls of the VM client use
ActionPath(op, uuid) ==
    <<"/vms", "/", uuid, IF op = "SetPowerState" THEN "/set_power_state" ELSE "/revert">>

\* The body a caller hands over as an io.Reader over marshalled JSON.
ReaderBody == ValueBody(DSMetadata(NoFilter, Nil, Nil))

\* The cluster client's GetByUUID: a GET of the cluster through
\* requestHelper against the primary endpoint, with no body.
ClusterGetByUUID(uuid) == NewV3PCRequest("GET", <<"/clusters", "/", uuid>>, NilBody)

\* A cluster resource as decoded: its body with
\* spec.resources.network.external_ip.
ClusterBody(ip) ==
    [f \in {"kind", "keys", "status", "state", "typed", "entities", "total",
             "offset", "externalIP"} |->
        IF f = "externalIP" THEN ip
        ELSE Body("object", {"status"}, StatusObject("COMPLETE"), "", TRUE, <<>>, 0, 0)[f]]

ClusterIPs == {"10.0.0.5", "10.0.0.6"}

\* What may come back for the cluster lookup.
LookupResponses ==
    {TransportFailure}
        \cup {Response(c, b) : c \in {200, 404, 503},
                b \in {ClusterBody(ip) : ip \in ClusterIPs}
                        \cup {Body("object", {"status"}, StatusObject("ERROR"), "", TRUE,
                                   <<>>, 0, 0),
                              PlainBody("invalid")}}

\* What may come back for the request sent to the cluster.
OuterResponses ==
    {TransportFailure}
        \cup {Response(c, b) : c \in {200, 404},
                b \in {Body("object", {}, NoStatus, "", TRUE, <<>>, 0, 0),
                       PlainBody("empty")}}

\* client.go:307-322
newV2Request(method, url, body) ==
    [method |-> method, url |-> url, auth |-> "basic",
     payload |-> Payload(TRUE, "", "", body.value)]

\* client.go:228 and client.go:282 with the lookup's error dropped
LookupFailed_Ignored(res) == FALSE

\* client.go:228 and client.go:282  if err != nil
LookupFailed(res) == res.err # NoErr

\* client.go:231-239: the request once the cluster is known
NewV3PERequest(method, ip, path, body) ==
    newV3Request(method, PEEndpoint(ip) \o <<absolutePath>> \o path, body)

\* client.go:285-293: the request once the cluster is known
NewV2PERequest(method, ip, path, body) ==
    newV2Request(method, PEEndpoint(ip) \o <<defaultV2BaseURL>> \o path, body)

PEOps == {"RevertToRecoveryPoint", "SetPowerState"}

\* client.go:227 and client.go:281: the cluster lookup comes first
\* (vm.go:121 RevertToRecoveryPoint, vm.go:185 SetPowerState).
StartPE ==
    /\ pc = "idle"
    /\ Usable(client)
    /\ UNCHANGED <<client, proc, locals>>
    /\ pc' = "lookup"
    /\ \E op \in PEOps, uuid \in UUIDs :
        /\ call' = [op |-> op, client |-> "vm", name |-> uuid]
        /\ sent' = <<ClusterGetByUUID(uuid)>>
    /\ UNCHANGED <<opts, opts0, total, resp, response, newList, remaining,
                   offset, last, ret>>

\* client.go:227-239 and client.go:281-293: the lookup's answer; on an
\* error the caller returns nil with it (vm.go:123-125, vm.go:186-188).
LookupResponse ==
    /\ pc = "lookup"
    /\ UNCHANGED <<client, proc, locals>>
    /\ \E r \in LookupResponses :
        LET res == requestHelper("GET", r, TypedOutput(EmptyList))
            ip == IF "externalIP" \in DOMAIN r.body THEN r.body.externalIP ELSE ""
        IN
        /\ resp' = r
        /\ last' = res
        /\ IF res.panic
           THEN pc' = "panicked" /\ UNCHANGED <<sent, ret>>
           ELSE IF LookupFailed(res)
           THEN /\ pc' = "done"
                /\ ret' = Result(EmptyList, Nil, res.err)
                /\ UNCHANGED sent
           ELSE /\ pc' = "outer"
                /\ sent' = Append(sent,
                       IF call.op = "SetPowerState"
                       THEN NewV2PERequest("POST", ip, ActionPath(call.op, call.name),
                                           ReaderBody)
                       ELSE NewV3PERequest("POST", ip, ActionPath(call.op, call.name),
                                           ReaderBody))
                /\ UNCHANGED ret
    /\ UNCHANGED <<call, opts, opts0, total, response, newList, remaining, offset>>

\* vm.go:126-131 and vm.go:190-196: c.client.Do(req, &task)
OuterResponse ==
    /\ pc = "outer"
    /\ UNCHANGED <<client, proc, locals>>
    /\ \E r \in OuterResponses :
        LET res == Do("POST", r, AddrOf(TypedOutput(EmptyList))) IN
        /\ resp' = r
        /\ last' = res
        /\ pc' = IF res.panic THEN "panicked" ELSE "done"
        /\ ret' = IF res.panic THEN ret
                  ELSE Result(EmptyList, IF res.err = NoErr THEN Ptr(0) ELSE Nil, res.err)
    /\ UNCHANGED <<call, opts, opts0, total, sent, response, newList, remaining,
                   offset>>

\* client.go:211 and client.go:221: a call on a client built without
\* credentials or without an endpoint panics while its request is built.
CallOnBareClient ==
    /\ pc = "idle"
    /\ ~Usable(client)
    /\ UNCHANGED <<client, proc, locals>>
    /\ pc' = "panicked"
    /\ \E op \in {"List", "GetByUUID"}, kind \in Clients :
           call' = [op |-> op, client |-> kind, name |-> ""]
    /\ UNCHANGED <<opts, opts0, total, sent, resp, response, newList, remaining,
                   offset, last, ret>>

\* ------------------------------------------------------------ specification

Next ==
    \/ List
    \/ All
    \/ GetByNameCall
    \/ FirstPage
    \/ NextPage
    \/ GetByUUID
    \/ Delete
    \/ SingleResponse
    \/ CallOnBareClient
    \/ StartPE
    \/ LookupResponse
    \/ OuterResponse

Spec == Init /\ [][Next]_vars

\* ------------------------------------------------------------ concurrent specification

\* vm.go:83-87 and vm.go:90-92 called from goroutine p, with options and an
\* output value of its own, on the shared client.
CStart(p) ==
    /\ proc[p].pc = "idle"
    /\ Usable(client)
    /\ \E kind \in {"vm", "subnet"}, T \in ConcTotals, failAt \in FailPoints,
          off \in {Nil, Ptr(0)} :
        proc' = [proc EXCEPT ![p] =
                    StartFrame(kind, DSMetadata(NoFilter, Ptr(itemsPerPage), off), T,
                               failAt)]
    /\ UNCHANGED <<client, locals, pc, call, opts, opts0, total, sent, resp, response,
                   newList, remaining, offset, last, ret>>

\* client.go:333-359 in goroutine p
CFirst(p) ==
    /\ proc[p].pc = "first"
    /\ LET n == FirstStep(proc[p], locals[Slot(p)]) IN
        /\ proc' = [proc EXCEPT ![p] = n.f]
        /\ locals' = [locals EXCEPT ![Slot(p)] = n.l]
    /\ UNCHANGED <<client, pc, call, opts, opts0, total, sent, resp, response,
                   newList, remaining, offset, last, ret>>

\* client.go:362-368 in goroutine p
CPage(p) ==
    /\ proc[p].pc = "page"
    /\ LET n == PageStep(proc[p], locals[Slot(p)]) IN
        /\ proc' = [proc EXCEPT ![p] = n.f]
        /\ locals' = [locals EXCEPT ![Slot(p)] = n.l]
    /\ UNCHANGED <<client, pc, call, opts, opts0, total, sent, resp, response,
                   newList, remaining, offset, last, ret>>

NextConc ==
    \/ \E p \in Procs : CStart(p)
    \/ \E p \in Procs : CFirst(p)
    \/ \E p \in Procs : CPage(p)

SpecConc == Init /\ [][NextConc]_vars

\* ------------------------------------------------------------ properties

\* A response has been received and handled: resp and last belong together.
Handled == pc \in {"page", "outer", "done", "panicked"}

\* The call is a list call made with the page size as its length, from the
\* start of the result set.
ListCall == call.op \in {"List", "All"}

FromStart == opts0.Length = Ptr(itemsPerPage) /\ (~opts0.Offset.set \/ opts0.Offset.val = 0)

\* The entities numbered from a+1 to b, in order.
Range(a, b) == [i \in 1..(b - a) |-> a + i]

\* C1: a list call whose first response reports total_matches = N*page_size + r
\* (N >= 1, 0 < r < page_size), every request succeeding against the faithful
\* backend, issues exactly N+1 requests and returns exactly the N*page_size + r
\* entities, first page first.
C1_RequestsAndEntities ==
    (/\ pc = "done"
     /\ ListCall
     /\ FromStart
     /\ ret.err = NoErr
     /\ total > itemsPerPage
     /\ total % itemsPerPage # 0)
        => /\ Len(sent) = (total \div itemsPerPage) + 1
           /\ ret.list.Entities = Range(0, total)

\* C2: a list call whose first response reports total_matches <= page_size
\* issues exactly one request and returns the entities of that response,
\* unchanged and in order.
C2_SinglePage ==
    (/\ pc = "done"
     /\ call.op \in {"List", "All", "GetByName"}
     /\ last.err = NoErr
     /\ response.TotalMatches <= itemsPerPage)
        => /\ Len(sent) = 1
           /\ ret.list.Entities = resp.body.entities

\* C2's case: a first response that fills a page exactly, and nothing more.
C2_Witness ==
    /\ pc = "done"
    /\ call.op = "List"
    /\ last.err = NoErr
    /\ response.TotalMatches = itemsPerPage
    /\ Len(ret.list.Entities) = itemsPerPage
    /\ Len(sent) = 1

\* C3: throughout a list call served faithfully, the entities accumulated so
\* far number at most the total_matches the first response reported.
C3_AccumulatedWithinTotal ==
    (/\ Handled
     /\ call.op \in {"List", "All", "GetByName"}
     /\ last.err = NoErr
     /\ ~last.panic)
        => Len(response.Entities) <= response.TotalMatches

C5_DeleteEmptyBody ==
    (/\ pc = "done"
     /\ call.op = "Delete"
     /\ ~resp.transport
     /\ resp.code >= 200 /\ resp.code <= 299
     /\ resp.body.kind = "empty")
        => /\ ret.err = NoErr
           /\ ~last.decoded

\* C6: a body with an `entities` key is classified as a success also when it
\* holds a `status` object, or a top-level `state`, whose state is "ERROR".
C6_EntitiesFirst ==
    (/\ Handled
     /\ ~resp.transport
     /\ ~(resp.code >= 500 \/ resp.code = 401 \/ resp.code = 404)
     /\ resp.body.kind = "object"
     /\ "entities" \in resp.body.keys
     /\ \/ "status" \in resp.body.keys /\ resp.body.status.shape = "object"
        \/ "status" \notin resp.body.keys /\ "state" \in resp.body.keys)
        => /\ ~last.panic
           /\ last.err.kind # "api"

\* C7: GetByName, the name-filtered list answered successfully with zero
\* entities, returns no resource and a not-found error naming the name.
C7_NotFoundOnEmpty ==
    (/\ pc = "done"
     /\ call.op = "GetByName"
     /\ last.err = NoErr
     /\ resp.body.entities = <<>>
     /\ Len(sent) = 1)
        => /\ ret.item = Nil
           /\ ret.err.kind = "notfound"
           /\ \E i \in DOMAIN ret.err.text : ret.err.text[i] = call.name

\* C7's case: no entity matches the name.
C7_Witness ==
    /\ pc = "done"
    /\ call.op = "GetByName"
    /\ call.client = "vm"
    /\ call.name = "web"
    /\ total = 0
    /\ last.err = NoErr
    /\ ret.err = Err("notfound", 0, <<"VM not found: %s", "web">>)

\* C8: GetByName returns the list request's error when that request failed,
\* and the not-found error only when it succeeded with zero entities.
C8_ErrorsDistinct ==
    (pc = "done" /\ call.op = "GetByName")
        => /\ (last.err # NoErr => ret.err = last.err)
           /\ (ret.err.kind = "notfound"
                 => last.err = NoErr /\ Len(ret.list.Entities) = 0)

\* C9: a page fetch failing in the middle of a list call ends the call with
\* that error, and the result handed back with it holds none of the entities
\* accumulated before.
C9_NoPartialResult ==
    (/\ pc = "done"
     /\ ListCall
     /\ Len(sent) >= 2
     /\ last.err # NoErr)
        => /\ ret.err = last.err
           /\ ret.list.Entities = <<>>

\* C10: a call made with a nil request body sends a request with no body.
C10_NilBodyBodiless ==
    (call.op \in {"GetByUUID", "Delete"} /\ Len(sent) >= 1)
        => /\ ~sent[1].payload.hasBody
           /\ sent[1].payload.json # "null"

\* C11: after NewClient, whatever options were applied (none of the package's
\* options disables it), TLS certificate verification is enabled.
C11_VerifiesCertificates == ~client.insecureSkipVerify

\* C12: a cluster-scoped call first looks the cluster up with one request to
\* the primary endpoint; when the lookup fails its error is what the caller
\* gets and no request goes to the cluster; the request that follows a
\* successful lookup is addressed to the cluster address looked up.
C12_LookupFirst ==
    (call.op \in PEOps /\ Len(sent) >= 1)
        => /\ sent[1] = ClusterGetByUUID(call.name)
           /\ sent[1].url[1] = "baseURL"
           /\ Len(sent) <= 2
           /\ pc = "outer"
                => /\ last.err = NoErr
                   /\ Len(sent) = 2
                   /\ SubSeq(sent[2].url, 1, 2) = PEEndpoint(resp.body.externalIP)
           /\ (pc = "done" /\ Len(sent) = 1)
                => /\ last.err # NoErr
                   /\ ret.err = last.err
                   /\ ret.item = Nil
           /\ Len(sent) = 2 => sent[2].url[2] \in ClusterIPs

\* C12's case: the lookup is answered 404 and the call ends there.
C12_Witness ==
    /\ pc = "done"
    /\ call.op = "SetPowerState"
    /\ Len(sent) = 1
    /\ resp.code = 404
    /\ ret.err = Err("status", 404, <<"object">>)

\* C15: when the first response reports more than a page of matches T at
\* offset o, the loop's requests ask for o, o + page size, ... in that order,
\* never more than floor(T / page size) + 1 of them, and a call that ends
\* without an error has asked for exactly that many.
C15_LoopOffsets ==
    (call.op \in {"List", "All", "GetByName"} /\ Len(sent) >= 2)
        => /\ response.TotalMatches > itemsPerPage
           /\ Len(sent) <= (response.TotalMatches \div itemsPerPage) + 2
           /\ \A k \in 2..Len(sent) :
                ReqOffset(sent[k]) = response.Offset + (k - 2) * itemsPerPage
           /\ (pc = "done" /\ ret.err = NoErr)
                => Len(sent) = (response.TotalMatches \div itemsPerPage) + 2

\* C15's case: a total of exactly two pages ends after three page fetches,
\* the last one at offset 1000.
C15_Witness ==
    /\ pc = "done"
    /\ call.op = "All"
    /\ ret.err = NoErr
    /\ response.TotalMatches = 2 * itemsPerPage
    /\ Len(sent) = 4
    /\ ReqOffset(sent[4]) = 2 * itemsPerPage

\* C16: checking a response never crashes, whatever the JSON object's status
\* value is.
C16_NeverPanics == ~last.panic

\* C17: when a list call has returned, the caller's query options are what
\* they were before the call.
C17_OptionsUnchanged ==
    (pc = "done" /\ call.op \in {"List", "All"}) => opts = opts0

\* The last response went through the classification of its JSON object, and
\* the object has no `entities` key and a `status`, if any, that is a string
\* or an object.
Classified ==
    /\ Handled
    /\ last # NoDo
    /\ ~resp.transport
    /\ ~(call.op = "Delete" /\ resp.code >= 200 /\ resp.code <= 299)
    /\ ~HardStatus(resp.code)
    /\ resp.body.kind = "object"
    /\ "entities" \notin resp.body.keys
    /\ "status" \in resp.body.keys => resp.body.status.shape \in {"string", "object"}

\* The state the classification looks at: that of the status object, else the
\* top-level one, else none.
StateSeen ==
    IF "status" \in resp.body.keys THEN resp.body.status.state
    ELSE IF "state" \in resp.body.keys THEN resp.body.state
    ELSE ""

Succeeds == last.err = NoErr /\ ~last.panic

IsPrefix(a, b) == Len(a) <= Len(b) /\ SubSeq(b, 1, Len(a)) = a

\* The call of goroutine p as it ends when nothing else runs.
Alone(p) ==
    RunAlone(StartFrame(proc[p].kind, proc[p].opts0, proc[p].T, proc[p].failAt),
             NoLocals)

\* C13: under every interleaving of the calls on one client, each call's
\* requests so far are the first requests of its run alone, and once it has
\* returned it has issued the same requests and returned the same result.
C13_Independent ==
    \A p \in Procs :
        proc[p].pc # "idle"
            => /\ IsPrefix(proc[p].sent, Alone(p).sent)
               /\ proc[p].pc = "done"
                    => /\ proc[p].sent = Alone(p).sent
                       /\ proc[p].ret = Alone(p).ret

\* C13's case: both calls are inside their loops at once, at different
\* offsets of different result sets.
C13_Witness ==
    /\ proc["g1"].pc = "page"
    /\ proc["g2"].pc = "page"
    /\ proc["g1"].T = MaxPages * itemsPerPage
    /\ proc["g2"].T = itemsPerPage + 1
    /\ Len(proc["g1"].sent) = 3
    /\ Len(proc["g2"].sent) = 2
    /\ ReqOffset(proc["g1"].sent[3]) = itemsPerPage
    /\ ReqOffset(proc["g2"].sent[2]) = 0

====
